---- MODULE Spec2Model ----
(***************************************************************************)
(* A model of src/libraries/solc/wrapper.js: setupMethods(soljson) and the *)
(* compile() entry point it returns (compileStandardWrapper), the callback *)
(* bridge (runWithReadCallback, wrapCallback) and the memory adapter       *)
(* (copyString).                                                           *)
(*                                                                         *)
(* JavaScript values are records tagged by a field k, so that values of    *)
(* different shapes can be compared.  A JSON text is a record              *)
(* [wf, doc]: wf says whether the text is well-formed JSON and doc is the  *)
(* value it denotes; JSON.parse fails on a text that is not well formed.   *)
(* Strings whose bytes matter (the strings copied into module memory) are  *)
(* sequences of code points.  Messages are sequences of string fragments,  *)
(* so that 'a' + b is <<"a">> \o b.                                        *)
(***************************************************************************)
EXTENDS Integers, Sequences, FiniteSets, TLC

\* ---------------------------------------------------------------- bounds
\* The largest number of entries of a request's sources.
MaxSources == 2
\* The largest number of times the native side calls the bridged callback
\* during one top-level compile() call, nested calls included.
MaxInvocations == 1

\* The longest message formatFatalError is given, in chunks.
MaxMessageLen == 3

\* ---------------------------------------------------------------- values
Undefined == "undefined"
Null == "null"
Function == "function"
NotAFunction == "number"

NoDoc == [k |-> "none"]
NullDoc == [k |-> "null"]

\* The symbols line 56..80 look for in the module's export table.
Exports ==
  {"_compileJSON", "_compileJSONMulti", "_compileJSONCallback",
   "_compileStandard", "_solidity_compile"}

LegacyExports == {"_compileJSON", "_compileJSONMulti", "_compileJSONCallback"}
StandardExports == {"_compileStandard", "_solidity_compile"}

\* The export tables of the module handles given to setupMethods: every
\* combination of the legacy entry points without a standard entry point, and
\* every combination of the standard entry points with none or all of the
\* legacy ones.
Handles ==
  {l \cup s : l \in SUBSET LegacyExports, s \in SUBSET StandardExports} \
    {h \in SUBSET Exports :
       /\ h \cap StandardExports # {}
       /\ h \cap LegacyExports \notin {{}, LegacyExports}}

SourceNames == <<"a.sol", "b.sol", "c.sol", "d.sol">>
IndexNames == <<"0", "1", "2", "3">>
SourceTexts == <<"x", "y", "z", "w">>

\* A source entry: {content: <text>} or {content: null}.
Entry(c) == [content |-> c]

\* The sources of a request: null, an array of entries, or a mapping from
\* names to entries (in insertion order; the i-th name is SourceNames[i] and
\* its literal content, when it has one, is SourceTexts[i]).
SourceItems(n) ==
  { s \in [1..n -> {Entry(SourceTexts[i]) : i \in 1..n} \cup {Entry(Null)}] :
      \A i \in 1..n : s[i].content \in {SourceTexts[i], Null} }

SourcesValues ==
  {[k |-> "null", items |-> <<>>]}
    \cup {[k |-> "array", items |-> [i \in 1..n |-> Entry(SourceTexts[i])]] : n \in 0..MaxSources}
    \cup UNION {{[k |-> "object", items |-> s] : s \in SourceItems(n)} : n \in 0..MaxSources}

\* The settings of a request: absent, null, or an object with an optional
\* optimizer block and optional libraries.
Libs == "libs"
SettingsValues ==
  {[k |-> Undefined, optimizer |-> "absent", libraries |-> Undefined],
   [k |-> Null, optimizer |-> "absent", libraries |-> Undefined],
   [k |-> "object", optimizer |-> "absent", libraries |-> Undefined],
   [k |-> "object", optimizer |-> "on", libraries |-> Libs],
   [k |-> "object", optimizer |-> "off", libraries |-> Undefined]}

Languages == {"Solidity", "Yul"}

RequestDocs ==
  [k : {"request"}, language : Languages, sources : SourcesValues, settings : SettingsValues]

\* JSON texts.
Text(doc) == [wf |-> TRUE, doc |-> doc]
MalformedText == [wf |-> FALSE, doc |-> NoDoc]
NoText == [wf |-> FALSE, doc |-> [k |-> "notext"]]

InputTexts == {MalformedText, Text(NullDoc)} \cup {Text(d) : d \in RequestDocs}

ReadCallbacks == {Undefined, Function, NotAFunction}

\* The inputs of a compile() call made by the resolution callback, from
\* inside the native call.
ReentrantRequest ==
  [k |-> "request", language |-> "Solidity",
   sources |-> [k |-> "object", items |-> <<Entry(SourceTexts[1])>>],
   settings |-> [k |-> Null, optimizer |-> "absent", libraries |-> Undefined]]
ReentrantInputs == {Text(ReentrantRequest)}
ReentrantCallbacks == {Undefined, Function}

\* What the native side can answer, and the faults it can raise.
NativeOutputDoc == [k |-> "nativeOutput"]
NativeOutputs == {MalformedText, Text(NativeOutputDoc)}
NativeFaults == {"abort", "stackOverflow"}
HostFaults == {"hostError"}
NoFault == "none"

\* ------------------------------------------------------------ JSON.parse
ParseErrorMessage == "Unexpected token"

JSONparse(text) ==
  IF text.wf THEN [ok |-> TRUE, value |-> text.doc, message |-> <<>>]
  ELSE [ok |-> FALSE, value |-> NoDoc, message |-> <<ParseErrorMessage>>]

JSONstringify(doc) == Text(doc)

\* exports, fnTable, heap: the Emscripten module (its export table, its
\* function-pointer table, its memory); stack, invocations, last: the compile()
\* calls in flight and the one that completed; formatted: the last response
\* formatFatalError made; semverResult: what the last semver() call returned.
VARIABLES exports, fnTable, heap, stack, invocations, last, formatted, semverResult

vars == <<exports, fnTable, heap, stack, invocations, last, formatted, semverResult>>

\* =====================================================================
\* setupMethods: capability detection (no native call is made)
\* =====================================================================
compileJSON ==
  IF "_compileJSON" \in exports THEN "compileJSON" ELSE Null

compileJSONMulti ==
  IF "_compileJSONMulti" \in exports THEN "compileJSONMulti" ELSE Null

compileJSONCallback ==
  IF "_compileJSONCallback" \in exports THEN "compileJSONCallback" ELSE Null

\* The later assignment (solidity_compile) overrides the earlier one.
compileStandard ==
  IF "_solidity_compile" \in exports THEN "solidity_compile"
  ELSE IF "_compileStandard" \in exports THEN "compileStandard"
  ELSE Null

\* =====================================================================
\* version and versionToSemver (lines 192..201)
\* =====================================================================
version_Legacy == "version"

\* The native version function that setupMethods resolves.
version ==
  IF "_solidity_version" \in exports THEN "solidity_version" ELSE "version"

\* The string the module's version function returns: a property of the build,
\* in the old format for the builds that only export _version.
OldStyleVersion == "0.3.6-3fc68da5/Release-Emscripten/clang"
NewStyleVersion == "0.4.26+commit.4563c3fc.Emscripten.clang"
NativeVersion(symbol) ==
  IF "_solidity_version" \in exports THEN NewStyleVersion ELSE OldStyleVersion

\* translate.versionToSemver: an old-format string is rewritten, a semantic
\* version is returned as it is.
TranslatedVersion(raw) ==
  IF raw = OldStyleVersion THEN "0.3.6+commit.3fc68da5" ELSE raw

NoSemver == [called |-> <<>>, text |-> ""]
versionToSemver ==
  [called |-> <<version, "translate.versionToSemver">>,
   text |-> TranslatedVersion(NativeVersion(version))]

\* =====================================================================
\* compileStandardWrapper: the local functions
\* =====================================================================
ErrorEntry_NoPrefix(message) ==
  [type |-> "SOLCError", component |-> "solcjs", severity |-> "error",
   message |-> message, formattedMessage |-> message]

ErrorEntry(message) ==
  [type |-> "SOLCError", component |-> "solcjs", severity |-> "error",
   message |-> message, formattedMessage |-> <<"Error: ">> \o message]

formatFatalError(message) ==
  JSONstringify([errors |-> <<ErrorEntry(message)>>])

\* ---------------------------------------------------------------------
\* The text JSON.stringify makes of the object of lines 94..104, and what
\* JSON.parse makes of a text.  A text is a sequence of chunks: a chunk is a
\* structural character, a character that a JSON string has to escape, or a
\* run of characters that need no escaping.
\* ---------------------------------------------------------------------
Str(s) == [t |-> "string", s |-> s]
Arr(items) == [t |-> "array", items |-> items]
Obj(members) == [t |-> "object", members |-> members]
Member(key, value) == [key |-> key, value |-> value]
NoValue == [t |-> "none"]

Quote == "\""
Backslash == "\\"
LineFeed == "\n"
ControlChunks == {LineFeed}

\* JSON.stringify, a string: quote, backslash and control characters are
\* escaped.
escapeChunk(c) ==
  IF c = Quote THEN <<Backslash, Quote>>
  ELSE IF c = Backslash THEN <<Backslash, Backslash>>
  ELSE IF c = LineFeed THEN <<Backslash, "n">>
  ELSE <<c>>

RECURSIVE escapeFrom(_, _)
escapeFrom(s, i) ==
  IF i > Len(s) THEN <<>> ELSE escapeChunk(s[i]) \o escapeFrom(s, i + 1)

stringifyString(s) == <<Quote>> \o escapeFrom(s, 1) \o <<Quote>>

RECURSIVE stringifyValue(_)
RECURSIVE stringifyItems(_, _)
RECURSIVE stringifyMembers(_, _)
stringifyItems(items, i) ==
  IF i > Len(items) THEN <<>>
  ELSE (IF i > 1 THEN <<",">> ELSE <<>>)
       \o stringifyValue(items[i]) \o stringifyItems(items, i + 1)

stringifyMembers(members, i) ==
  IF i > Len(members) THEN <<>>
  ELSE (IF i > 1 THEN <<",">> ELSE <<>>)
       \o stringifyString(members[i].key) \o <<":">>
       \o stringifyValue(members[i].value) \o stringifyMembers(members, i + 1)

stringifyValue(v) ==
  IF v.t = "string" THEN stringifyString(v.s)
  ELSE IF v.t = "array" THEN <<"[">> \o stringifyItems(v.items, 1) \o <<"]">>
  ELSE <<"{">> \o stringifyMembers(v.members, 1) \o <<"}">>

\* JSON.parse: [ok, value, next], next the position after the value.
At(text, i) == IF i \in 1..Len(text) THEN text[i] ELSE ""
ParseFailure == [ok |-> FALSE, value |-> NoValue, next |-> 0]
Parsed(value, next) == [ok |-> TRUE, value |-> value, next |-> next]

Unescaped(c) ==
  IF c = "n" THEN LineFeed ELSE c

RECURSIVE parseString(_, _, _)
parseString(text, i, acc) ==
  IF i > Len(text) \/ text[i] \in ControlChunks THEN ParseFailure
  ELSE IF text[i] = Quote THEN Parsed(Str(acc), i + 1)
  ELSE IF text[i] = Backslash
       THEN IF At(text, i + 1) \in {Quote, Backslash, "n"}
            THEN parseString(text, i + 2, Append(acc, Unescaped(text[i + 1])))
            ELSE ParseFailure
  ELSE parseString(text, i + 1, Append(acc, text[i]))

RECURSIVE parseValue(_, _)
RECURSIVE parseItems(_, _, _)
RECURSIVE parseMembers(_, _, _)
parseItems(text, i, acc) ==
  LET item == parseValue(text, i) IN
  IF ~item.ok THEN ParseFailure
  ELSE IF At(text, item.next) = ","
       THEN parseItems(text, item.next + 1, Append(acc, item.value))
  ELSE IF At(text, item.next) = "]"
       THEN Parsed(Arr(Append(acc, item.value)), item.next + 1)
  ELSE ParseFailure

parseMembers(text, i, acc) ==
  LET key == IF At(text, i) = Quote THEN parseString(text, i + 1, <<>>)
             ELSE ParseFailure
      value == IF key.ok /\ At(text, key.next) = ":"
               THEN parseValue(text, key.next + 1) ELSE ParseFailure
      member == Member(key.value.s, value.value)
  IN
  IF ~value.ok THEN ParseFailure
  ELSE IF At(text, value.next) = ","
       THEN parseMembers(text, value.next + 1, Append(acc, member))
  ELSE IF At(text, value.next) = "}"
       THEN Parsed(Obj(Append(acc, member)), value.next + 1)
  ELSE ParseFailure

parseValue(text, i) ==
  IF At(text, i) = Quote THEN parseString(text, i + 1, <<>>)
  ELSE IF At(text, i) = "["
       THEN IF At(text, i + 1) = "]" THEN Parsed(Arr(<<>>), i + 2)
            ELSE parseItems(text, i + 1, <<>>)
  ELSE IF At(text, i) = "{"
       THEN IF At(text, i + 1) = "}" THEN Parsed(Obj(<<>>), i + 2)
            ELSE parseMembers(text, i + 1, <<>>)
  ELSE ParseFailure

parseText(text) ==
  LET v == parseValue(text, 1) IN
  IF v.ok /\ v.next = Len(text) + 1 THEN v ELSE ParseFailure

\* The object literal of lines 94..104, its keys in the order written.
FatalValue(message) ==
  LET e == ErrorEntry(message) IN
  Obj(<<Member(<<"errors">>, Arr(<<Obj(<<
        Member(<<"type">>, Str(<<e.type>>)),
        Member(<<"component">>, Str(<<e.component>>)),
        Member(<<"severity">>, Str(<<e.severity>>)),
        Member(<<"message">>, Str(e.message)),
        Member(<<"formattedMessage">>, Str(e.formattedMessage))>>)>>))>>)

formatFatalErrorText(message) == stringifyValue(FatalValue(message))

NoFormatted == [message |-> <<>>, text |-> <<>>]

MsgInvalidCallback == <<"Invalid import callback supplied">>
MsgInvalidJSON == <<"Invalid JSON supplied: ">>
MsgLanguage == <<"Only Solidity sources are supported">>
MsgNoInput == <<"No input specified">>
MsgMultiple == <<"Multiple sources provided, but compiler only supports single input">>
MsgSources == <<"Failed to process sources">>
MsgBadOutput == <<"Compiler returned invalid JSON: ">>
MsgNoOutput == <<"Failed to process output">>
MsgNoInterface == <<"Compiler does not support any known interface.">>

\* typeof readCallback === 'function'
IsFunction(readCallback) == readCallback = Function

\* input['language'] !== 'Solidity' is the negation of this.
LanguageSupported_Any(doc) == TRUE

LanguageSupported(doc) == doc.language = "Solidity"

\* input['sources'] == null
SourcesAbsent(doc) == doc.sources.k = Null

\* input['sources'].length: a number for an array; a mapping has no property
\* length (no source is named "length"), so the comparisons with it are false.
HasLength(sources) == sources.k = "array"

\* input['sources'].length === 0
LengthIsZero(doc) == HasLength(doc.sources) /\ Len(doc.sources.items) = 0

\* input['sources'].length > 1
LengthAboveOne(doc) == HasLength(doc.sources) /\ Len(doc.sources.items) > 1

\* The property name `for (const source in input['sources'])` yields at i.
PropertyName(sources, i) ==
  IF sources.k = "array" THEN IndexNames[i] ELSE SourceNames[i]

\* isOptimizerEnabled: a && b && c yields the first falsy operand.
isOptimizerEnabled(doc) ==
  IF doc.settings.k = Undefined THEN Undefined
  ELSE IF doc.settings.k = Null THEN Null
  ELSE IF doc.settings.optimizer = "absent" THEN Undefined
  ELSE IF doc.settings.optimizer = "on" THEN "true"
  ELSE "false"

\* The coercion of a JavaScript value passed for a 'number' parameter.
ToInt(v) == IF v = "true" THEN 1 ELSE 0

\* translateSources: null as soon as an entry has content null.
RECURSIVE translateFrom(_, _, _)
translateFrom(sources, i, acc) ==
  IF i > Len(sources.items) THEN [isNull |-> FALSE, entries |-> acc]
  ELSE IF sources.items[i].content # Null
    THEN translateFrom(sources, i + 1,
           Append(acc, [name |-> PropertyName(sources, i),
                        content |-> sources.items[i].content]))
  ELSE [isNull |-> TRUE, entries |-> <<>>]

RECURSIVE skipNullFrom(_, _, _)
skipNullFrom(sources, i, acc) ==
  IF i > Len(sources.items) THEN [isNull |-> FALSE, entries |-> acc]
  ELSE IF sources.items[i].content # Null
    THEN skipNullFrom(sources, i + 1,
           Append(acc, [name |-> PropertyName(sources, i),
                        content |-> sources.items[i].content]))
  ELSE skipNullFrom(sources, i + 1, acc)

translateSources_SkipNull(doc) == skipNullFrom(doc.sources, 1, <<>>)

translateSources(doc) == translateFrom(doc.sources, 1, <<>>)

\* librariesSupplied: input['settings'] !== null lets an absent settings
\* block (undefined) through, and reading a property of undefined throws.
librariesSupplied(doc) ==
  IF doc.settings.k # Null
  THEN IF doc.settings.k = Undefined
       THEN [throws |-> TRUE, value |-> Undefined]
       ELSE [throws |-> FALSE, value |-> doc.settings.libraries]
  ELSE [throws |-> FALSE, value |-> Undefined]

\* =====================================================================
\* compileStandardWrapper: what one compile() call decides before any
\* native call.  A plan is to return a text, to throw, or to make the one
\* native call (through runWithReadCallback when the entry point is bridged).
\* =====================================================================
TextArg(t) == [k |-> "text", text |-> t]
SourceArg(s) == [k |-> "source", source |-> s]
ValueArg(v) == [k |-> "value", value |-> v, number |-> ToInt(v)]
PointerArg(p) == [k |-> "pointer", ptr |-> p]

NoCall == [entry |-> Null, args |-> <<>>, bridged |-> FALSE, translate |-> FALSE]

ReturnPlan(text) ==
  [kind |-> "return", text |-> text, fault |-> NoFault, call |-> NoCall,
   libraries |-> Undefined]

ThrowPlan(fault) ==
  [kind |-> "throw", text |-> NoText, fault |-> fault, call |-> NoCall,
   libraries |-> Undefined]

NativePlan(entry, args, bridged, translate, libraries) ==
  [kind |-> "native", text |-> NoText, fault |-> NoFault,
   call |-> [entry |-> entry, args |-> args, bridged |-> bridged,
             translate |-> translate],
   libraries |-> libraries]

\* JSON.stringify({'sources': sources})
SourcesBundle(entries) == JSONstringify([sources |-> entries])

\* Lines 175..189: the first entry point that exists, in the order
\* compileJSONCallback, compileJSONMulti, compileJSON.
selectLegacy(doc, entries, libraries) ==
  IF compileJSONCallback # Null
  THEN NativePlan(compileJSONCallback,
         <<TextArg(SourcesBundle(entries)), ValueArg(isOptimizerEnabled(doc))>>,
         TRUE, TRUE, libraries)
  ELSE IF compileJSONMulti # Null
  THEN NativePlan(compileJSONMulti,
         <<TextArg(SourcesBundle(entries)), ValueArg(isOptimizerEnabled(doc))>>,
         FALSE, TRUE, libraries)
  ELSE IF compileJSON # Null
  THEN NativePlan(compileJSON,
         <<SourceArg(entries[1].content), ValueArg(isOptimizerEnabled(doc))>>,
         FALSE, TRUE, libraries)
  ELSE ReturnPlan(formatFatalError(MsgNoInterface))

\* Lines 117..173, for the parsed input.
validateLegacy(doc) ==
  IF doc = NullDoc THEN ThrowPlan("TypeError")
  ELSE IF ~LanguageSupported(doc) THEN ReturnPlan(formatFatalError(MsgLanguage))
  ELSE IF SourcesAbsent(doc) \/ LengthIsZero(doc)
    THEN ReturnPlan(formatFatalError(MsgNoInput))
  ELSE IF LengthAboveOne(doc) /\ compileJSONMulti = Null
    THEN ReturnPlan(formatFatalError(MsgMultiple))
  ELSE LET sources == translateSources(doc) IN
    IF sources.isNull \/ Len(sources.entries) = 0
    THEN ReturnPlan(formatFatalError(MsgSources))
    ELSE LET libraries == librariesSupplied(doc) IN
      IF libraries.throws THEN ThrowPlan("TypeError")
      ELSE selectLegacy(doc, sources.entries, libraries.value)

\* Lines 88..115.
compileStandardWrapper_ParseFirst(input, readCallback) ==
  IF ~JSONparse(input).ok
  THEN ReturnPlan(formatFatalError(MsgInvalidJSON \o JSONparse(input).message))
  ELSE IF compileStandard # Null
  THEN NativePlan(compileStandard, <<TextArg(input)>>, TRUE, FALSE, Undefined)
  ELSE IF readCallback # Undefined /\ ~IsFunction(readCallback)
    THEN ReturnPlan(formatFatalError(MsgInvalidCallback))
  ELSE validateLegacy(JSONparse(input).value)

compileStandardWrapper(input, readCallback) ==
  IF compileStandard # Null
  THEN NativePlan(compileStandard, <<TextArg(input)>>, TRUE, FALSE, Undefined)
  ELSE IF readCallback # Undefined /\ ~IsFunction(readCallback)
    THEN ReturnPlan(formatFatalError(MsgInvalidCallback))
  ELSE LET parsed == JSONparse(input) IN
    IF ~parsed.ok
    THEN ReturnPlan(formatFatalError(MsgInvalidJSON \o parsed.message))
    ELSE validateLegacy(parsed.value)

\* =====================================================================
\* translateOutput and the output translator (translate.js)
\* =====================================================================
\* The arguments line 160 passes to translate.translateJsonCompilerOutput:
\* the parsed output alone; translateOutput declares one parameter, so the
\* libraries its callers pass as a second argument are dropped.
translatorArgs(output, libraries) ==
  [output |-> output, libraries |-> Undefined]

\* What the translator can return for a call: null, undefined, or the
\* translated output.
UndefinedDoc == [k |-> "undefined"]
TranslatorResults(args) ==
  {NullDoc, UndefinedDoc, [contracts |-> args.output, linked |-> args.libraries]}

translateOutput_NoNullCheck(output, libraries, result) ==
  LET parsed == JSONparse(output) IN
  IF ~parsed.ok
  THEN [text |-> formatFatalError(MsgBadOutput \o parsed.message),
        translatorCalls |-> <<>>, translated |-> NoDoc]
  ELSE [text |-> JSONstringify(result),
        translatorCalls |-> <<translatorArgs(parsed.value, libraries)>>,
        translated |-> result]

\* translateOutput, given the result the translator returns when called.
translateOutput(output, libraries, result) ==
  LET parsed == JSONparse(output) IN
  IF ~parsed.ok
  THEN [text |-> formatFatalError(MsgBadOutput \o parsed.message),
        translatorCalls |-> <<>>, translated |-> NoDoc]
  ELSE IF result \in {NullDoc, UndefinedDoc}
  THEN [text |-> formatFatalError(MsgNoOutput),
        translatorCalls |-> <<translatorArgs(parsed.value, libraries)>>,
        translated |-> result]
  ELSE [text |-> JSONstringify(result),
        translatorCalls |-> <<translatorArgs(parsed.value, libraries)>>,
        translated |-> result]

\* =====================================================================
\* The module's function-pointer table and memory
\* =====================================================================
\* addFunction: the pointer of the first free slot of the table.
addFunction(table) ==
  CHOOSE p \in 1..(Cardinality(table) + 1) :
    p \notin table /\ \A q \in 1..(Cardinality(table) + 1) : q \notin table => p <= q

removeFunction(table, ptr) == table \ {ptr}

\* lengthBytesUTF8
ByteLength(cp) ==
  IF cp < 128 THEN 1 ELSE IF cp < 2048 THEN 2 ELSE IF cp < 65536 THEN 3 ELSE 4

RECURSIVE lengthBytesUTF8(_)
lengthBytesUTF8(str) ==
  IF str = <<>> THEN 0 ELSE ByteLength(Head(str)) + lengthBytesUTF8(Tail(str))

EncodeCodePoint(cp) ==
  IF cp < 128 THEN <<cp>>
  ELSE IF cp < 2048 THEN <<192 + (cp \div 64), 128 + (cp % 64)>>
  ELSE <<224 + (cp \div 4096), 128 + ((cp \div 64) % 64), 128 + (cp % 64)>>

RECURSIVE EncodeUTF8(_)
EncodeUTF8(str) ==
  IF str = <<>> THEN <<>> ELSE EncodeCodePoint(Head(str)) \o EncodeUTF8(Tail(str))

\* stringToUTF8(str, buffer, maxBytes): the bytes of str and a terminating 0,
\* cut to maxBytes.
stringToUTF8(str, maxBytes) ==
  LET bytes == EncodeUTF8(str) \o <<0>> IN
  IF Len(bytes) <= maxBytes THEN bytes
  ELSE SubSeq(bytes, 1, maxBytes - 1) \o <<0>>

\* _malloc(size): an address past every live buffer (0 is the null pointer).
malloc(mem, size) ==
  IF mem = {} THEN 1
  ELSE LET top == CHOOSE b \in mem : \A c \in mem : c.addr <= b.addr
       IN top.addr + top.size

copyString_NoTerminator(mem, slots, str, slot) ==
  LET length == lengthBytesUTF8(str)
      buffer == malloc(mem, length)
  IN [heap |-> mem \cup {[addr |-> buffer, size |-> length,
                          bytes |-> stringToUTF8(str, length)]},
      slots |-> [slots EXCEPT ![slot] = buffer]]

\* copyString(str, ptr): the memory, and the slots, after the copy.
copyString(mem, slots, str, slot) ==
  LET length == lengthBytesUTF8(str)
      buffer == malloc(mem, length + 1)
  IN [heap |-> mem \cup {[addr |-> buffer, size |-> length + 1,
                          bytes |-> stringToUTF8(str, length + 1)]},
      slots |-> [slots EXCEPT ![slot] = buffer]]

\* Pointer_stringify(path): the string the native side holds at a pointer.
PathPointers == {"pathA", "pathB"}
NativeStrings ==
  [p \in PathPointers |-> IF p = "pathA" THEN <<97, 0>> ELSE <<195, 169, 0>>]

RECURSIVE DecodeUTF8(_)
DecodeUTF8(bytes) ==
  IF bytes = <<>> \/ Head(bytes) = 0 THEN <<>>
  ELSE IF Head(bytes) < 128 THEN <<Head(bytes)>> \o DecodeUTF8(Tail(bytes))
  ELSE <<(Head(bytes) - 192) * 64 + (bytes[2] - 128)>> \o DecodeUTF8(Tail(Tail(bytes)))

Pointer_stringify(ptr) == DecodeUTF8(NativeStrings[ptr])

\* =====================================================================
\* The resolution callback
\* =====================================================================
DefaultErrorText ==
  <<70, 105, 108, 101, 32, 105, 109, 112, 111, 114, 116, 32, 99, 97, 108, 108, 98, 97, 99, 107, 32, 110, 111, 116, 32, 115, 117, 112, 112, 111, 114, 116, 101, 100>>

StringField(str) == [t |-> "string", s |-> str]
AbsentField == [t |-> Undefined, s |-> <<>>]
NumberField == [t |-> "number", s |-> <<>>]

ContentsText == <<112, 233>>
ErrorText == <<101>>

\* The callback line 31..35 substitutes when none is supplied.
defaultReadCallback_Contents(path) ==
  [contents |-> StringField(DefaultErrorText), error |-> AbsentField]

defaultReadCallback(path) ==
  [contents |-> AbsentField, error |-> StringField(DefaultErrorText)]

\* What a host callback can return for a path.
HostResults ==
  {[contents |-> StringField(ContentsText), error |-> AbsentField],
   [contents |-> AbsentField, error |-> StringField(ErrorText)],
   [contents |-> StringField(ContentsText), error |-> StringField(ErrorText)],
   [contents |-> AbsentField, error |-> NumberField]}

CallbackResults(readCallback, path) ==
  IF readCallback = Undefined THEN {defaultReadCallback(path)} ELSE HostResults

NoSlots == [contents |-> 0, error |-> 0]

wrapCallbackCopies_ElseIf(mem, slots, result) ==
  IF result.contents.t = "string"
  THEN copyString(mem, slots, result.contents.s, "contents")
  ELSE IF result.error.t = "string"
  THEN copyString(mem, slots, result.error.s, "error")
  ELSE [heap |-> mem, slots |-> slots]

\* Lines 19..24: the wrapper's copies, contents first, then error.
wrapCallbackCopies(mem, slots, result) ==
  LET first == IF result.contents.t = "string"
               THEN copyString(mem, slots, result.contents.s, "contents")
               ELSE [heap |-> mem, slots |-> slots]
  IN IF result.error.t = "string"
     THEN copyString(first.heap, first.slots, result.error.s, "error")
     ELSE first

\* =====================================================================
\* runWithReadCallback: the exits of the bridged native call
\* =====================================================================
\* wrapCallback's assertion, after line 30..36 substituted the default.
wrapCallbackAccepts(readCallback) ==
  readCallback = Undefined \/ IsFunction(readCallback)

\* Line 51: the native call returned.
removeAfterReturn_Leak(table, cb) == table

removeAfterReturn(table, cb) == removeFunction(table, cb)

\* Lines 47..48: the native call raised.
removeAfterFault_Leak(table, cb) == table

removeAfterFault(table, cb) == removeFunction(table, cb)

\* Line 49: throw e.
rethrow_Swallow(fault) ==
  [outcome |-> "return", text |-> formatFatalError(<<"Compiler fault">>),
   fault |-> NoFault]

rethrow(fault) == [outcome |-> "throw", text |-> NoText, fault |-> fault]

\* A fault of an entry point called directly (lines 181, 186) is not caught.
propagate(fault) == [outcome |-> "throw", text |-> NoText, fault |-> fault]

\* =====================================================================
\* State
\* =====================================================================
\* exports:     the export table of the module handle given to setupMethods
\* fnTable:     the pointers registered in the module's function table
\* heap:        the buffers allocated in module memory
\* stack:       the bridged compile() calls in flight, innermost last
\* invocations: the bridged-callback invocations of the current top-level call
\* last:        the compile() call that just completed and what it did, until
\*              its caller takes the result: the input and callback it was
\*              given, whether it was made from inside a callback (nested),
\*              its outcome ("return" with text, "throw" with fault), the
\*              native calls and translator calls it made, the pointers it
\*              added to and removed from the function table, the number of
\*              times its callback was invoked, the fault its native call
\*              raised, if it did, the output its native call returned and
\*              what the translator made of it

NoLast ==
  [outcome |-> "none", input |-> NoText, readCallback |-> Undefined,
   nested |-> FALSE, text |-> NoText, fault |-> NoFault, nativeCalls |-> <<>>,
   translatorCalls |-> <<>>, added |-> <<>>, removed |-> <<>>, cbCalls |-> 0,
   raised |-> NoFault, output |-> NoText, translated |-> NoDoc]

Completed(input, readCallback, nested, exit, nativeCalls, translatorCalls, added, removed, cbCalls, raised, output, translated) ==
  [outcome |-> exit.outcome, input |-> input, readCallback |-> readCallback,
   nested |-> nested, text |-> exit.text, fault |-> exit.fault,
   nativeCalls |-> nativeCalls, translatorCalls |-> translatorCalls,
   added |-> added, removed |-> removed, cbCalls |-> cbCalls,
   raised |-> raised, output |-> output, translated |-> translated]

Returned(text) == [outcome |-> "return", text |-> text, fault |-> NoFault]

Top == stack[Len(stack)]

\* The resolution callback that the wrapper registered under ptr calls: the
\* wrapper closes over the callback of the compile() call that registered it
\* (line 42).  A pointer that no call in flight registered belongs to the
\* wrapper of a call that has ended.
NoPointer == 0
Owners(ptr) == {i \in 1..Len(stack) : stack[i].cb = ptr}
RegisteredCallback(ptr) ==
  IF Owners(ptr) # {} THEN stack[CHOOSE i \in Owners(ptr) : TRUE].readCallback
  ELSE Function

NoPath == "none"
NoResult == [k |-> "none"]

\* compile() is called by the host when no call is in flight, or by a host
\* resolution callback while the native side waits for its result.
CanCall ==
  /\ last = NoLast
  /\ IF stack = <<>> THEN TRUE
     ELSE Top.phase = "callback" /\ IsFunction(RegisteredCallback(Top.invoked))

CallInputs ==
  IF stack = <<>> THEN InputTexts \X ReadCallbacks
  ELSE ReentrantInputs \X ReentrantCallbacks

Init ==
  /\ exports \in Handles
  /\ fnTable = {}
  /\ heap = {}
  /\ stack = <<>>
  /\ invocations = 0
  /\ last = NoLast
  /\ formatted = NoFormatted
  /\ semverResult = NoSemver

\* compile(input, readCallback) that ends before any native call: a fatal
\* error response, a TypeError, or the assertion of wrapCallback.
CompileWithoutNative(input, readCallback) ==
  LET plan == compileStandardWrapper(input, readCallback) IN
  /\ CanCall
  /\ \/ plan.kind # "native"
     \/ plan.call.bridged /\ ~wrapCallbackAccepts(readCallback)
  /\ last' = Completed(input, readCallback, stack # <<>>,
               IF plan.kind = "return" THEN Returned(plan.text)
               ELSE IF plan.kind = "throw" THEN propagate(plan.fault)
               ELSE propagate("AssertionError"),
               <<>>, <<>>, <<>>, <<>>, 0, NoFault, NoText, NoDoc)
  /\ UNCHANGED <<exports, fnTable, heap, stack, invocations, formatted, semverResult>>

\* compile() through compileJSONMulti or compileJSON, the native call
\* returning output: translateOutput makes the response.
CompileDirect(input, readCallback, output) ==
  LET plan == compileStandardWrapper(input, readCallback) IN
  /\ CanCall
  /\ plan.kind = "native" /\ ~plan.call.bridged
  /\ \E result \in TranslatorResults(
                     translatorArgs(JSONparse(output).value, plan.libraries)) :
       LET translated == translateOutput(output, plan.libraries, result) IN
       last' = Completed(input, readCallback, stack # <<>>,
                 Returned(translated.text), <<plan.call>>,
                 translated.translatorCalls, <<>>, <<>>, 0, NoFault,
                 output, translated.translated)
  /\ UNCHANGED <<exports, fnTable, heap, stack, invocations, formatted, semverResult>>

\* compile() through compileJSONMulti or compileJSON, the native call raising.
CompileDirectFault(input, readCallback, fault) ==
  LET plan == compileStandardWrapper(input, readCallback) IN
  /\ CanCall
  /\ plan.kind = "native" /\ ~plan.call.bridged
  /\ last' = Completed(input, readCallback, stack # <<>>, propagate(fault),
               <<plan.call>>, <<>>, <<>>, <<>>, 0, fault, NoText, NoDoc)
  /\ UNCHANGED <<exports, fnTable, heap, stack, invocations, formatted, semverResult>>

\* compile() through a bridged entry point, up to the native call (lines
\* 30..46): the wrapped callback is registered and its pointer pushed as the
\* last argument.
CompileBridged(input, readCallback) ==
  LET plan == compileStandardWrapper(input, readCallback)
      cb == addFunction(fnTable)
  IN
  /\ CanCall
  /\ plan.kind = "native" /\ plan.call.bridged
  /\ wrapCallbackAccepts(readCallback)
  /\ fnTable' = fnTable \cup {cb}
  /\ stack' = Append(stack,
       [input |-> input, readCallback |-> readCallback,
        call |-> [plan.call EXCEPT !.args = Append(@, PointerArg(cb))],
        libraries |-> plan.libraries, cb |-> cb, phase |-> "native",
        invoked |-> NoPointer, pathPtr |-> NoPath, path |-> <<>>,
        result |-> NoResult, slots |-> NoSlots, buffers |-> {}, cbCalls |-> 0])
  /\ last' = NoLast
  /\ UNCHANGED <<exports, heap, invocations, formatted, semverResult>>

\* The native side calls a function pointer of the table (lines 17..18): the
\* wrapper registered there decodes the path and calls its resolution
\* callback.
BridgeInvoked(ptr, pathPtr) ==
  /\ stack # <<>>
  /\ Top.phase = "native"
  /\ ptr \in fnTable
  /\ invocations < MaxInvocations
  /\ invocations' = invocations + 1
  /\ stack' = [stack EXCEPT ![Len(stack)] =
       [@ EXCEPT !.phase = "callback", !.invoked = ptr, !.pathPtr = pathPtr,
                 !.path = Pointer_stringify(pathPtr), !.result = NoResult,
                 !.slots = NoSlots, !.cbCalls = @ + 1]]
  /\ UNCHANGED <<exports, fnTable, heap, last, formatted, semverResult>>

\* The resolution callback returns; the wrapper copies the strings of the
\* result into module memory and stores their addresses (lines 19..24).
CallbackReturns(result) ==
  /\ stack # <<>>
  /\ Top.phase = "callback"
  /\ last = NoLast
  /\ result \in CallbackResults(RegisteredCallback(Top.invoked), Top.path)
  /\ LET copied == wrapCallbackCopies(heap, Top.slots, result) IN
     /\ heap' = copied.heap
     /\ stack' = [stack EXCEPT ![Len(stack)] =
          [@ EXCEPT !.phase = "native",
                    !.pathPtr = NoPath, !.path = <<>>, !.result = result,
                    !.slots = copied.slots,
                    !.buffers = @ \cup {b.addr : b \in copied.heap \ heap}]]
  /\ UNCHANGED <<exports, fnTable, invocations, last, formatted, semverResult>>

\* The frame on top of the stack ends: the native side has released the
\* buffers it was handed, and the call's record becomes `last`.
PopFrame(exit, translatorCalls, table, raised, output, translated) ==
  /\ fnTable' = table
  /\ heap' = {b \in heap : b.addr \notin Top.buffers}
  /\ stack' = SubSeq(stack, 1, Len(stack) - 1)
  /\ invocations' = IF Len(stack) = 1 THEN 0 ELSE invocations
  /\ last' = Completed(Top.input, Top.readCallback, Len(stack) > 1, exit,
               <<Top.call>>, translatorCalls, <<Top.cb>>,
               IF Top.cb \in fnTable /\ Top.cb \notin table THEN <<Top.cb>> ELSE <<>>,
               Top.cbCalls, raised, output, translated)
  /\ UNCHANGED <<exports, formatted, semverResult>>

\* The resolution callback throws (or returns no object, so that reading
\* result.contents throws): the fault unwinds the native call into the catch
\* block of runWithReadCallback.
CallbackThrows(fault) ==
  /\ stack # <<>>
  /\ Top.phase = "callback"
  /\ IsFunction(RegisteredCallback(Top.invoked))
  /\ PopFrame(rethrow(fault), <<>>, removeAfterFault(fnTable, Top.cb), fault,
              NoText, NoDoc)

\* The native call raises: the catch block of runWithReadCallback.
NativeRaises(fault) ==
  /\ stack # <<>>
  /\ Top.phase = "native"
  /\ PopFrame(rethrow(fault), <<>>, removeAfterFault(fnTable, Top.cb), fault,
              NoText, NoDoc)

\* The native call returns output (line 51..52); on the compileJSONCallback
\* path translateOutput makes the response, on the standard path the output
\* is the response.
NativeReturns(output) ==
  /\ stack # <<>>
  /\ Top.phase = "native"
  /\ \E result \in TranslatorResults(
                     translatorArgs(JSONparse(output).value, Top.libraries)) :
       LET translated ==
             IF Top.call.translate
             THEN translateOutput(output, Top.libraries, result)
             ELSE [text |-> output, translatorCalls |-> <<>>, translated |-> NoDoc]
       IN PopFrame(Returned(translated.text), translated.translatorCalls,
                   removeAfterReturn(fnTable, Top.cb), NoFault, output,
                   translated.translated)

\* The caller of compile() takes the response, or catches the fault, of the
\* call that completed.
TakeResult ==
  /\ last # NoLast
  /\ last' = NoLast
  /\ UNCHANGED <<exports, fnTable, heap, stack, invocations, formatted, semverResult>>

Next ==
  \/ \E c \in CallInputs : CompileWithoutNative(c[1], c[2])
  \/ \E c \in CallInputs, output \in NativeOutputs : CompileDirect(c[1], c[2], output)
  \/ \E c \in CallInputs, fault \in NativeFaults : CompileDirectFault(c[1], c[2], fault)
  \/ \E c \in CallInputs : CompileBridged(c[1], c[2])
  \/ \E ptr \in fnTable, p \in PathPointers : BridgeInvoked(ptr, p)
  \/ \E result \in HostResults \cup {defaultReadCallback(<<>>)} : CallbackReturns(result)
  \/ \E fault \in HostFaults \cup {"TypeError"} : CallbackThrows(fault)
  \/ \E fault \in NativeFaults : NativeRaises(fault)
  \/ \E output \in NativeOutputs : NativeReturns(output)
  \/ TakeResult

Spec == Init /\ [][Next]_vars

\* ---------------------------------------------------------------------
\* formatFatalError as a function of its message (lines 93..105)
\* ---------------------------------------------------------------------
MessageChunks == {"a", "}", Quote, Backslash, LineFeed}
Messages == UNION {[1..n -> MessageChunks] : n \in 0..MaxMessageLen}

FormatFatalError(message) ==
  /\ formatted' = [message |-> message, text |-> formatFatalErrorText(message)]
  /\ UNCHANGED <<exports, fnTable, heap, stack, invocations, last, semverResult>>

FormatNext == \E message \in Messages : FormatFatalError(message)

\* A handle without a standard entry point: compileStandardWrapper gets
\* past line 91, to where formatFatalError is defined.
FormatInit ==
  /\ exports = {"_compileJSON"}
  /\ fnTable = {}
  /\ heap = {}
  /\ stack = <<>>
  /\ invocations = 0
  /\ last = NoLast
  /\ formatted = NoFormatted
  /\ semverResult = NoSemver

SpecFormat == FormatInit /\ [][FormatNext]_vars

\* ---------------------------------------------------------------------
\* version and semver (lines 192..201) on a handle that exports a version
\* function, between the compile() calls
\* ---------------------------------------------------------------------
MetaHandles ==
  {{"_compileJSON", "_version"},
   {"_compileJSONCallback", "_version"},
   {"_compileJSONCallback", "_version", "_solidity_version"},
   {"_solidity_compile", "_solidity_version"}}

MetaInit ==
  /\ exports \in MetaHandles
  /\ fnTable = {}
  /\ heap = {}
  /\ stack = <<>>
  /\ invocations = 0
  /\ last = NoLast
  /\ formatted = NoFormatted
  /\ semverResult = NoSemver

\* semver(), called by the host when no call is in flight or from a host
\* resolution callback: versionToSemver calls version() and hands the string
\* to the translator.
Semver ==
  /\ IF stack = <<>> THEN TRUE
     ELSE Top.phase = "callback" /\ IsFunction(RegisteredCallback(Top.invoked))
  /\ semverResult' = versionToSemver
  /\ UNCHANGED <<exports, fnTable, heap, stack, invocations, last, formatted>>

MetaNext == Next \/ Semver

SpecMeta == MetaInit /\ [][MetaNext]_vars

\* =====================================================================
\* Properties
\* =====================================================================
\* A compile() call has just completed.
CallDone == last.outcome # "none"

\* The input of the completed call is a JSON object (a request).
IsRequest == last.input.wf /\ last.input.doc.k = "request"

\* The parsed input of the completed call.
Request == last.input.doc

\* The callback given to the completed call is undefined or a function.
ValidCallback == last.readCallback \in {Undefined, Function}

\* A response of the fixed fatal shape.
IsFatalResponse(text) ==
  /\ text.wf
  /\ DOMAIN text.doc = {"errors"}
  /\ Len(text.doc.errors) = 1
  /\ text.doc.errors[1].type = "SOLCError"
  /\ text.doc.errors[1].component = "solcjs"
  /\ text.doc.errors[1].severity = "error"

FatalMessage(text) == text.doc.errors[1].message

ReturnedFatal(message) ==
  /\ last.outcome = "return"
  /\ IsFatalResponse(last.text)
  /\ FatalMessage(last.text) = message

NoStandardEntry == exports \cap StandardExports = {}

IsMapping(doc) == doc.sources.k = "object"

AllLiteral(doc) ==
  \A i \in 1..Len(doc.sources.items) : doc.sources.items[i].content # Null

SomeNullContent(doc) ==
  \E i \in 1..Len(doc.sources.items) : doc.sources.items[i].content = Null

\* C1: every function pointer a compile() call adds is removed again when
\* control leaves the call, on return and on a fault: the table holds exactly
\* the pointers of the calls in flight, one each, a completed call removed what
\* it added, and with no call in flight the table is empty.
C1_PointerRemovedOnEveryExit ==
  /\ fnTable = {stack[i].cb : i \in 1..Len(stack)}
  /\ \A i, j \in 1..Len(stack) : i # j => stack[i].cb # stack[j].cb
  /\ CallDone => last.removed = last.added /\ Len(last.added) <= 1
  /\ CallDone => \A i \in 1..Len(last.added) : last.added[i] \notin fnTable
  /\ stack = <<>> => fnTable = {}

\* C1 (witness): a bridged call whose native call raised has completed, and the table is
\* empty.
C1_Witness ==
  /\ CallDone /\ stack = <<>>
  /\ last.added # <<>>
  /\ last.raised \in NativeFaults
  /\ fnTable = {}

\* C3 (as claimed, for a request that passes the earlier checks): with only
\* compileJSON, a request whose sources mapping has more than one entry gets
\* the fatal response 'Multiple sources provided, ...' and no native call.
C3_MultipleSourcesRejected ==
  (/\ CallDone /\ exports = {"_compileJSON"} /\ ValidCallback /\ IsRequest
   /\ LanguageSupported(Request) /\ IsMapping(Request) /\ AllLiteral(Request)
   /\ Len(Request.sources.items) > 1
   /\ Request.settings.k # Undefined)
    => (ReturnedFatal(MsgMultiple) /\ last.nativeCalls = <<>>)

\* C4 (as claimed, for a request that passes the earlier checks): without a
\* standard entry point, a request whose sources mapping is empty gets the
\* fatal response 'No input specified' and no native call.
C4_EmptySourcesNoInput ==
  (/\ CallDone /\ NoStandardEntry /\ ValidCallback /\ IsRequest
   /\ LanguageSupported(Request) /\ IsMapping(Request)
   /\ Len(Request.sources.items) = 0)
    => (ReturnedFatal(MsgNoInput) /\ last.nativeCalls = <<>>)

\* C5 (as claimed, for a valid callback): for every capability record, a
\* request whose language is not 'Solidity' gets a fatal response and no
\* native call.
C5_LanguageRejectedEverywhere ==
  (CallDone /\ ValidCallback /\ IsRequest /\ Request.language # "Solidity")
    => (/\ last.outcome = "return" /\ IsFatalResponse(last.text)
        /\ last.nativeCalls = <<>>)

\* C5 (amended): on a module without a standard entry point, a request whose
\* language is not 'Solidity' gets a fatal response ('Only Solidity sources
\* are supported' when the callback is valid), no native call is made and no
\* function pointer is registered.
C5_LanguageRejectedWithoutStandard ==
  (CallDone /\ NoStandardEntry /\ IsRequest /\ Request.language # "Solidity")
    => (/\ last.outcome = "return" /\ IsFatalResponse(last.text)
        /\ ValidCallback => FatalMessage(last.text) = MsgLanguage
        /\ last.nativeCalls = <<>>
        /\ last.added = <<>>)

\* C5 (witness): a request in another language, otherwise fit for compileJSON,
\* was rejected.
C5_Witness ==
  /\ CallDone /\ "_compileJSON" \in exports /\ NoStandardEntry
  /\ IsRequest /\ Request.language = "Yul" /\ ValidCallback
  /\ IsMapping(Request) /\ Len(Request.sources.items) = 1 /\ AllLiteral(Request)
  /\ Request.settings.k = "object"
  /\ ReturnedFatal(MsgLanguage)

\* The entry points a compile() call may invoke: the first that exists in the
\* order standard, compileJSONCallback, compileJSONMulti, compileJSON.
PreferredEntries ==
  IF ~NoStandardEntry THEN {"compileStandard", "solidity_compile"}
  ELSE IF "_compileJSONCallback" \in exports THEN {"compileJSONCallback"}
  ELSE IF "_compileJSONMulti" \in exports THEN {"compileJSONMulti"}
  ELSE IF "_compileJSON" \in exports THEN {"compileJSON"}
  ELSE {}

\* A request with language 'Solidity', a non-empty sources mapping of literal
\* contents, and a valid callback.
ValidRequest ==
  /\ ValidCallback /\ IsRequest
  /\ LanguageSupported(Request) /\ IsMapping(Request)
  /\ Len(Request.sources.items) > 0 /\ AllLiteral(Request)

\* C2 (as claimed, for a valid request on a module without a standard entry
\* point): when the native entry point does not raise, compile() returns a
\* text that parses as JSON and throws nothing, whether or not the request
\* has a settings block.
C2_AlwaysParseableResponse ==
  (CallDone /\ NoStandardEntry /\ ValidRequest /\ last.raised = NoFault)
    => (last.outcome = "return" /\ last.text.wf)

\* C6 (as claimed): one compile() call makes at most one native call, to the
\* preferred entry point; and when no entry point exists a valid request gets
\* the fatal response 'Compiler does not support any known interface.'
C6_OnePreferredEntryPoint ==
  CallDone =>
    /\ Len(last.nativeCalls) <= 1
    /\ \A i \in 1..Len(last.nativeCalls) : last.nativeCalls[i].entry \in PreferredEntries
    /\ (exports = {} /\ ValidRequest)
         => (ReturnedFatal(MsgNoInterface) /\ last.nativeCalls = <<>>)

\* C7 (as claimed): with only compileJSON, a request with language 'Solidity'
\* and one source with literal content makes exactly one native call,
\* compileJSON(content, optimizer flag), the flag being false when the
\* settings block is absent, and the translator's result is returned.
C7_LegacySingleSource ==
  (/\ CallDone /\ exports = {"_compileJSON"} /\ ValidRequest
   /\ Len(Request.sources.items) = 1)
    => (/\ Len(last.nativeCalls) = 1
        /\ last.nativeCalls[1].entry = "compileJSON"
        /\ Len(last.nativeCalls[1].args) = 2
        /\ last.nativeCalls[1].args[1] = SourceArg(Request.sources.items[1].content)
        /\ last.nativeCalls[1].args[2].number =
             (IF Request.settings.k = "object" /\ Request.settings.optimizer = "on"
              THEN 1 ELSE 0)
        /\ last.raised = NoFault => last.outcome = "return")

\* C8: without a standard entry point, a request with a source whose content
\* is null gets a fatal response ('Failed to process sources' when it passed
\* the checks on the callback and the language), with no native call, no
\* function pointer registered and no callback invocation.
C8_NullContentRejected ==
  (CallDone /\ NoStandardEntry /\ IsRequest /\ SomeNullContent(Request))
    => (/\ last.outcome = "return" /\ IsFatalResponse(last.text)
        /\ (ValidCallback /\ LanguageSupported(Request))
             => FatalMessage(last.text) = MsgSources
        /\ last.nativeCalls = <<>>
        /\ last.added = <<>>
        /\ last.cbCalls = 0)

\* C8 (witness): a request with a literal source and a null one was rejected
\* on a module that has the callback entry point.
C8_Witness ==
  /\ CallDone /\ "_compileJSONCallback" \in exports /\ NoStandardEntry
  /\ IsRequest /\ ValidCallback /\ LanguageSupported(Request)
  /\ Len(Request.sources.items) = 2
  /\ Request.sources.items[1].content # Null
  /\ Request.sources.items[2].content = Null
  /\ ReturnedFatal(MsgSources)

\* C9: when the native call raises, compile() returns nothing: the same
\* fault reaches the caller, the pointer registered for the call is already
\* removed, and no response is made of the fault.
C9_FaultPropagatesAfterCleanup ==
  (CallDone /\ last.raised # NoFault)
    => (/\ last.outcome = "throw"
        /\ last.fault = last.raised
        /\ last.text = NoText
        /\ last.removed = last.added
        /\ \A i \in 1..Len(last.added) : last.added[i] \notin fnTable)

\* C9 (witness): a bridged native call raised and the fault reached the caller.
C9_Witness ==
  /\ CallDone /\ last.raised \in NativeFaults
  /\ last.added # <<>> /\ last.removed = last.added
  /\ last.outcome = "throw"

\* C10 (as claimed): on the legacy paths, when the request's settings carry
\* libraries, the translator is called with them and the parsed output.
C10_TranslatorGetsLibraries ==
  (/\ CallDone /\ last.translatorCalls # <<>> /\ ValidRequest
   /\ Request.settings.k = "object" /\ Request.settings.libraries = Libs)
    => (/\ last.translatorCalls[1].output = NativeOutputDoc
        /\ last.translatorCalls[1].libraries = Libs)


\* ---------------------------------------------------------------------
\* C11
\* ---------------------------------------------------------------------
FieldOf(object, key) ==
  LET at == {i \in 1..Len(object.members) : object.members[i].key = <<key>>} IN
  IF Cardinality(at) = 1 THEN object.members[CHOOSE i \in at : TRUE].value
  ELSE NoValue

ErrorFields == {"type", "component", "severity", "message", "formattedMessage"}

\* C11: for every message m, the text formatFatalError(m) makes is valid JSON,
\* and parsing it gives an object whose only key is errors, holding exactly
\* one entry, whose fields are exactly type = 'SOLCError', component =
\* 'solcjs', severity = 'error', message = m and formattedMessage =
\* 'Error: ' + m.
C11_FatalResponseRoundTrip ==
  formatted # NoFormatted =>
    LET parsed == parseText(formatted.text)
        errors == FieldOf(parsed.value, "errors")
        entry == errors.items[1]
    IN
    /\ parsed.ok
    /\ parsed.value.t = "object"
    /\ Len(parsed.value.members) = 1
    /\ errors.t = "array"
    /\ Len(errors.items) = 1
    /\ entry.t = "object"
    /\ Len(entry.members) = 5
    /\ {entry.members[i].key : i \in 1..5} = {<<f>> : f \in ErrorFields}
    /\ FieldOf(entry, "type") = Str(<<"SOLCError">>)
    /\ FieldOf(entry, "component") = Str(<<"solcjs">>)
    /\ FieldOf(entry, "severity") = Str(<<"error">>)
    /\ FieldOf(entry, "message") = Str(formatted.message)
    /\ FieldOf(entry, "formattedMessage") = Str(<<"Error: ">> \o formatted.message)

\* A message holding a quote, a backslash and a line feed was formatted.
C11_Witness ==
  /\ formatted # NoFormatted
  /\ {formatted.message[i] : i \in 1..Len(formatted.message)}
       = {Quote, Backslash, LineFeed}
  /\ parseText(formatted.text).ok

\* ---------------------------------------------------------------------
\* C12
\* ---------------------------------------------------------------------
\* C12: a resolution callback runs only between the registration and the
\* deregistration of its pointer for its compile() call: whenever a callback
\* is running, the pointer the native side called is registered, it was
\* registered by a compile() call that is still inside its native call, and
\* a call that completed without a bridge never had its callback invoked.
C12_CallbackOnlyWhileRegistered ==
  /\ \A i \in 1..Len(stack) :
       stack[i].phase = "callback" =>
         /\ stack[i].invoked \in fnTable
         /\ \E j \in 1..i : stack[j].cb = stack[i].invoked
  /\ \A i \in 1..Len(stack) :
       stack[i].cbCalls = 0 => stack[i].invoked = NoPointer
  /\ CallDone /\ last.added = <<>> => last.cbCalls = 0
  /\ CallDone => \A k \in 1..Len(last.removed) :
                   /\ last.removed[k] \notin fnTable
                   /\ Owners(last.removed[k]) = {}

\* A callback is running, called through the pointer that its compile() call
\* registered, the only pointer of the table.
C12_Witness ==
  /\ Len(stack) = 1
  /\ Top.phase = "callback"
  /\ Top.invoked = Top.cb
  /\ fnTable = {Top.cb}

\* ---------------------------------------------------------------------
\* C13
\* ---------------------------------------------------------------------
\* C13: at every moment at most one function pointer registered by this
\* layer is outstanding in the module's function-pointer table, also when
\* the resolution callback re-enters compile() on the same handle.
C13_AtMostOnePointer == Cardinality(fnTable) <= 1

\* ---------------------------------------------------------------------
\* C14
\* ---------------------------------------------------------------------
\* The call that completed handed its input, as it was given, and the pointer
\* of the bridged callback to the native standard-JSON entry point, called no
\* translator, and returned what the native call returned.
PassedThrough ==
  /\ Len(last.nativeCalls) = 1
  /\ last.nativeCalls[1].entry \in {"compileStandard", "solidity_compile"}
  /\ Len(last.added) = 1
  /\ last.nativeCalls[1].args = <<TextArg(last.input), PointerArg(last.added[1])>>
  /\ last.translatorCalls = <<>>
  /\ last.raised = NoFault => last.outcome = "return" /\ last.text = last.output
  /\ last.raised # NoFault => last.outcome = "throw" /\ last.fault = last.raised

LegacyReturned ==
  /\ CallDone /\ NoStandardEntry
  /\ last.nativeCalls # <<>>
  /\ last.raised = NoFault

\* C15: on every legacy path the native output is parsed; when it is not
\* JSON, compile() returns the fatal response 'Compiler returned invalid
\* JSON: ...' and the translator is not called; when it is, the translator
\* is called exactly once, with the parsed output; a null or undefined
\* result gives the fatal response 'Failed to process output', any other
\* result is returned serialized.
C15_LegacyOutputNormalised ==
  LegacyReturned =>
    IF ~last.output.wf
    THEN /\ ReturnedFatal(<<"Compiler returned invalid JSON: ", ParseErrorMessage>>)
         /\ last.translatorCalls = <<>>
    ELSE /\ Len(last.translatorCalls) = 1
         /\ last.translatorCalls[1].output = last.output.doc
         /\ IF last.translated \in {NullDoc, UndefinedDoc}
            THEN ReturnedFatal(<<"Failed to process output">>)
            ELSE /\ last.outcome = "return"
                 /\ last.text.wf
                 /\ last.text.doc = last.translated
                 /\ ~IsFatalResponse(last.text)

\* The translator returned undefined for a parsed output, and the response
\* is the fatal 'Failed to process output'.
C15_Witness ==
  /\ LegacyReturned
  /\ last.output.wf
  /\ last.translated = UndefinedDoc
  /\ ReturnedFatal(<<"Failed to process output">>)

\* ---------------------------------------------------------------------
\* C16
\* ---------------------------------------------------------------------
\* The semantic version of a handle, from its export table alone.
SemverOf(handle) ==
  IF "_solidity_version" \in handle THEN "0.4.26+commit.4563c3fc.Emscripten.clang"
  ELSE "0.3.6+commit.3fc68da5"

PathAt(pathPtr) == IF pathPtr = "pathA" THEN <<97>> ELSE <<233>>

BufferAt(addr) == CHOOSE b \in heap : b.addr = addr

\* The slot was written for the field: it holds the address of a buffer
\* with the text of the field.
SlotHolds(frame, slot, field) ==
  /\ frame.slots[slot] # 0
  /\ \E b \in heap : b.addr = frame.slots[slot]
  /\ DecodeUTF8(BufferAt(frame.slots[slot]).bytes) = field.s

Utf8Length(str) ==
  Len(str) + Cardinality({i \in 1..Len(str) : str[i] >= 128})
           + Cardinality({i \in 1..Len(str) : str[i] >= 2048})

OutputSlots == {"contents", "error"}

\* The buffer was allocated for the string field found in a slot of the
\* running call: it has one byte more than the text, holds the text and its
\* terminator, and exactly one slot holds its address.
StoredOnce(b, frame) ==
  /\ Cardinality({slot \in OutputSlots : frame.slots[slot] = b.addr}) = 1
  /\ \A slot \in OutputSlots :
       frame.slots[slot] = b.addr =>
         /\ frame.result[slot].t = "string"
         /\ b.size = Utf8Length(frame.result[slot].s) + 1
         /\ Len(b.bytes) = b.size
         /\ b.bytes[b.size] = 0
         /\ DecodeUTF8(b.bytes) = frame.result[slot].s

\* C18: every buffer copyString allocates has the size of the UTF-8 encoding
\* of its text plus one and has its address stored into exactly one output
\* slot when the wrapper returns; no step of this layer frees a buffer (the
\* memory only shrinks when a native call ends), buffers never overlap, and
\* every buffer in memory is one whose address was handed to the native side
\* during a call still in flight.
C18_BuffersSizedStoredNeverFreed ==
  [][/\ \A b \in heap' \ heap :
          /\ stack' # <<>>
          /\ StoredOnce(b, stack'[Len(stack')])
          /\ \A c \in heap : c.addr + c.size <= b.addr \/ b.addr + b.size <= c.addr
          /\ b.addr > 0
     /\ Len(stack') >= Len(stack) => heap \subseteq heap'
     /\ \A b \in heap' : \E i \in 1..Len(stack') : b.addr \in stack'[i].buffers
    ]_vars

\* Two buffers are in memory, for a result with contents and an error; the
\* one for the contents, two characters in three bytes, has four bytes.
C18_Witness ==
  /\ Cardinality(heap) = 2
  /\ stack # <<>>
  /\ \E b \in heap : b.addr = Top.slots.contents /\ b.size = 4
  /\ \E b \in heap : b.addr = Top.slots.error /\ b.size = 2

\* ---------------------------------------------------------------------
\* C19
\* ---------------------------------------------------------------------
\* 'File import callback not supported'
NotSupportedText ==
  <<70, 105, 108, 101, 32, 105, 109, 112, 111, 114, 116, 32, 99, 97, 108,
    108, 98, 97, 99, 107, 32, 110, 111, 116, 32, 115, 117, 112, 112, 111,
    114, 116, 101, 100>>

\* C19: a bridged compile() call that was given no resolution callback has
\* a registered bridge target all the same; when the native side calls it,
\* for any path, the result has no contents and the fixed error 'File import
\* callback not supported': the error slot is written with that text and the
\* contents slot is left untouched.
C19_DefaultCallback ==
  \A i \in 1..Len(stack) :
    LET frame == stack[i] IN
    frame.readCallback = Undefined =>
      /\ frame.cb \in fnTable
      /\ frame.call.args[Len(frame.call.args)] = PointerArg(frame.cb)
      /\ frame.invoked = frame.cb /\ frame.result # NoResult =>
           /\ frame.result.contents.t # "string"
           /\ frame.result.error = StringField(NotSupportedText)
           /\ frame.phase = "native" =>
                /\ frame.slots.contents = 0
                /\ frame.slots.error # 0
                /\ \E b \in heap :
                     /\ b.addr = frame.slots.error
                     /\ b.bytes = NotSupportedText \o <<0>>

\* The native side requested an import from the default callback, and the
\* error slot is written.
C19_Witness ==
  /\ stack # <<>>
  /\ Top.readCallback = Undefined
  /\ Top.phase = "native"
  /\ Top.invoked = Top.cb
  /\ Top.result # NoResult
  /\ Top.slots.error # 0 /\ Top.slots.contents = 0

\* ---------------------------------------------------------------------
\* C20
\* ---------------------------------------------------------------------
\* C20: with only compileJSON, a request with several sources of literal
\* content makes exactly one native call, compileJSON(content of the first
\* source in the order of the mapping, optimizer flag), and the other
\* sources are dropped without an error response about them.
C20_LegacyDropsOtherSources ==
  (/\ CallDone /\ exports = {"_compileJSON"} /\ ValidRequest
   /\ Len(Request.sources.items) > 1)
    => (/\ Len(last.nativeCalls) = 1
        /\ last.nativeCalls[1].entry = "compileJSON"
        /\ Len(last.nativeCalls[1].args) = 2
        /\ last.nativeCalls[1].args[1] = SourceArg(Request.sources.items[1].content)
        /\ last.nativeCalls[1].args[2].number =
             (IF Request.settings.k = "object" /\ Request.settings.optimizer = "on"
              THEN 1 ELSE 0)
        /\ last.raised = NoFault =>
             last.outcome = "return" /\ ~ReturnedFatal(MsgMultiple))

====
